---- MODULE Spec2Model ----
(***************************************************************************)
(* Model of minecraft-pdb-mgr (src/src/main.rs): a reconciliation loop     *)
(* that probes a game server for its occupancy and patches the             *)
(* maxUnavailable field of one PodDisruptionBudget, next to a signal task  *)
(* that raises a tokio Notify on SIGINT/SIGTERM.                           *)
(*                                                                         *)
(* Two tasks are modelled: the main task (run, with try_update_pdb split   *)
(* at its two await points, the probe and the patch call) and the signal   *)
(* task (handle_signals).  The environment is the game server (the sample  *)
(* or the failure a probe returns), the API server (the remote object, the *)
(* outcome of each get and patch call) and the arrival of signals.         *)
(*                                                                         *)
(* Fractions: MIN_PLAYERS_PERCENT is an f64; the model keeps it as the     *)
(* numerator of a fraction over PctDen, and compares online >= pct * max   *)
(* after scaling both sides by PctDen.                                     *)
(***************************************************************************)
EXTENDS Integers, FiniteSets, Sequences, TLC

\* ---- bounds ----
MaxPlayers == 2
MaxMinPlayers == 1
PctDen == 4

\* ---- program constants ----
DEFAULT_MIN_PLAYERS == 1

VARIABLES
    \* configuration, read once by run
    min_players,        \* MIN_PLAYERS (u32)
    min_players_pct,    \* MIN_PLAYERS_PERCENT, as a numerator over PctDen
    env_min_players,    \* the MIN_PLAYERS variable as found, Unset if absent
    \* the remote object
    remote,             \* spec.maxUnavailable of the PodDisruptionBudget
    remote_other,       \* every other field of the PodDisruptionBudget
    \* main task
    pc,                 \* position of run
    last_has_players,   \* the local of run passed as &mut to try_update_pdb
    players_online,     \* sample of the current cycle
    players_max,
    has_players,        \* condition computed by the current cycle
    patch_body,         \* maxUnavailable value of the patch being sent
    result,             \* what the last try_update_pdb returned
    exit_code,          \* -1 while the process runs
    \* select! of the loop
    notified,           \* the Notified future of this iteration was woken
    timer_elapsed,      \* the Sleep future of this iteration has elapsed
    \* signal task
    sig_installed,      \* Signals::new has registered the handlers
    sig_pending,        \* a signal is waiting in the Signals stream
    \* history of the current cycle and of the signals
    probe_state,        \* "none" | "pending" | "ok" | "failed"
    patch_state,        \* "none" | "issued" | "ok" | "failed"
    last_at_start,      \* last_has_players when the cycle began
    prev_patched,       \* "t"/"f": the cycle before patched for that condition
    retry,              \* "t"/"f": a patch for that condition failed and
                        \* none has succeeded since
    in_flight,          \* reconciliations begun and not yet returned
    cyc_probes,         \* probes issued by the current cycle
    cyc_patches,        \* patch calls issued by the current cycle
    get_ok,             \* the startup read returned an object
    get_calls,          \* reads of the PodDisruptionBudget issued so far
    cycle_no,           \* 0 before the first cycle, 1 in it, 2 afterwards
    after_signal        \* -1 until notify_waiters is first called, then the
                        \* number of cycles begun since (saturates at 2)

cfg == <<min_players, min_players_pct, env_min_players>>
sel == <<notified, timer_elapsed>>
sigs == <<sig_installed, sig_pending>>
cyc == <<players_online, players_max, has_players, patch_body, result,
         probe_state, patch_state, last_at_start, prev_patched, retry,
         in_flight, cyc_probes, cyc_patches>>
hist == <<get_ok, get_calls, after_signal, cycle_no>>
vars == <<cfg, remote, remote_other, pc, last_has_players, exit_code, sel,
          sigs, cyc, hist>>

\* ---- values ----
IntVal(n) == [kind |-> "int", val |-> n]      \* IntOrString::Int(n)
StrVal(n) == [kind |-> "str", val |-> n]      \* IntOrString::String("n%")
NoVal == [kind |-> "none", val |-> 0]         \* spec or max_unavailable absent
RemoteValues == {IntVal(0), IntVal(1), IntVal(2), StrVal(0), NoVal}

\* the fields a patch of spec.maxUnavailable does not name
OtherFields == "selector"

\* samples (online, max) a probe can return
Samples == ((0..MaxPlayers) \X (0..MaxPlayers)) \cup {<<5, 10>>}

\* MIN_PLAYERS is not in the environment
Unset == 0 - 1

\* negative, zero, a half, one, more than one
PctValues == {0 - 1, 0, PctDen \div 2, PctDen, PctDen + 1}

Alive == pc \notin {"exited", "panicked", "killed"}
\* the current cycle got a sample and computed has_players from it
Evaluated == probe_state = "ok" /\ pc # "panicked"

\* ---- pure parts of try_update_pdb and run ----

\* Percentage::from_decimal panics unless 0.0 <= value <= 1.0.
FromDecimalPanics(pct) == pct < 0 \/ pct > PctDen

\* match std::env::var("MIN_PLAYERS") { Ok(s) => s.parse(), Err(_) => DEFAULT }
MinPlayersFromEnv(e) == IF e = Unset THEN DEFAULT_MIN_PLAYERS ELSE e

\* variant: a set MIN_PLAYERS wins over the percentage
PlayersNeededAbsoluteFirst(mp, pct, max) ==
    IF mp > 0 THEN mp * PctDen ELSE pct * max

\* variant: a server without slots falls back to the absolute minimum
PlayersNeededZeroMax(mp, pct, max) ==
    IF pct > 0 /\ max > 0 THEN pct * max ELSE mp * PctDen

\* players_needed, scaled by PctDen.
PlayersNeeded(mp, pct, max) ==
    IF pct > 0 THEN pct * max ELSE mp * PctDen

\* variant: the boundary online = needed does not count
HasPlayersStrict(online, needed) == online * PctDen > needed

\* f64::from(players_online) >= players_needed
HasPlayers(online, needed) == online * PctDen >= needed

\* variant: the allowance is written the wrong way round
PatchValueInverted(hp) == IF hp THEN 1 ELSE 0

\* u32::from(!has_players)
PatchValue(hp) == IF hp THEN 0 ELSE 1

\* Patch::Merge of {"spec": {"maxUnavailable": n}}: the other fields stay
MergePatch(other) == other

\* variant: the early return is never taken
SkipNever(hp, last) == FALSE

\* has_players == *last_has_players
StateUnchanged(hp, last) == hp = last

\* variant: every allowance but Int(1) seeds true
SeedStateNotOne(ok, mu) == ok /\ mu # IntVal(1)

\* pdb.map_or_else(|e| false, |v| matches!(.., Some(IntOrString::Int(0))))
SeedState(ok, mu) == ok /\ mu = IntVal(0)

\* ---- initial state ----
Init ==
    /\ min_players = DEFAULT_MIN_PLAYERS
    /\ min_players_pct = 0
    /\ env_min_players = Unset
    /\ remote \in RemoteValues
    /\ remote_other = OtherFields
    /\ pc = "start"
    /\ last_has_players = FALSE
    /\ players_online = 0
    /\ players_max = 0
    /\ has_players = FALSE
    /\ patch_body = 0
    /\ result = "none"
    /\ exit_code = 0 - 1
    /\ notified = FALSE
    /\ timer_elapsed = FALSE
    /\ sig_installed = FALSE
    /\ sig_pending = FALSE
    /\ probe_state = "none"
    /\ patch_state = "none"
    /\ last_at_start = FALSE
    /\ prev_patched = "none"
    /\ retry = "none"
    /\ in_flight = 0
    /\ cyc_probes = 0
    /\ cyc_patches = 0
    /\ get_ok = FALSE
    /\ get_calls = 0
    /\ cycle_no = 0
    /\ after_signal = 0 - 1

\* ---- startup of run ----
ReadConfig ==
    /\ pc = "start"
    /\ \E e \in {Unset} \cup (0..MaxMinPlayers) :
          /\ env_min_players' = e
          /\ min_players' = MinPlayersFromEnv(e)
    /\ min_players_pct' \in PctValues
    /\ pc' = "client"
    /\ UNCHANGED <<remote, remote_other, last_has_players, exit_code, sel,
                   sigs, cyc, hist>>

\* variant: a configuration error ends the process with code 0
ReadConfigFailsQuietly ==
    /\ pc = "start"
    /\ pc' = "exited"
    /\ exit_code' = 0
    /\ UNCHANGED <<cfg, remote, remote_other, last_has_players, sel, sigs,
                   cyc, hist>>

ReadConfigFails ==
    /\ pc = "start"
    /\ pc' = "exited"
    /\ exit_code' = 1
    /\ UNCHANGED <<cfg, remote, remote_other, last_has_players, sel, sigs,
                   cyc, hist>>

ClientReady ==
    /\ pc = "client"
    /\ pc' = "get"
    /\ UNCHANGED <<cfg, remote, remote_other, last_has_players, exit_code,
                   sel, sigs, cyc, hist>>

ClientFails ==
    /\ pc = "client"
    /\ pc' = "exited"
    /\ exit_code' = 1
    /\ UNCHANGED <<cfg, remote, remote_other, last_has_players, sel, sigs,
                   cyc, hist>>

\* api.get(&pdb_name).await and the seeding of last_has_players
GetPdb ==
    /\ pc = "get"
    /\ \E ok \in BOOLEAN :
          /\ get_ok' = ok
          /\ get_calls' = get_calls + 1
          /\ last_has_players' = SeedState(ok, remote)
    /\ pc' = "seeded"
    /\ UNCHANGED <<cfg, remote, remote_other, exit_code, sel, sigs, cyc,
                   after_signal, cycle_no>>

\* ---- one reconciliation: do_update / try_update_pdb ----
BeginCycle ==
    /\ pc' = "probing"
    /\ result' = "none"
    /\ probe_state' = "pending"
    /\ patch_state' = "none"
    /\ last_at_start' = last_has_players
    /\ prev_patched' = IF patch_state # "ok" THEN "none"
                       ELSE IF has_players THEN "t" ELSE "f"
    /\ after_signal' = IF after_signal \in {0, 1}
                       THEN after_signal + 1 ELSE after_signal
    /\ cycle_no' = IF cycle_no < 2 THEN cycle_no + 1 ELSE cycle_no
    /\ in_flight' = in_flight + 1
    /\ cyc_probes' = 1
    /\ cyc_patches' = 0
    /\ UNCHANGED <<players_online, players_max, has_players, patch_body,
                   retry>>

\* the cycle is over: back in the loop, select! creates its two futures
EndCycle(res) ==
    /\ result' = res
    /\ in_flight' = in_flight - 1
    /\ pc' = "select"
    /\ notified' = FALSE
    /\ timer_elapsed' = FALSE

\* variant: the loop is entered without the initial reconciliation
InitialUpdateSkipped ==
    /\ pc = "seeded"
    /\ pc' = "select"
    /\ notified' = FALSE
    /\ timer_elapsed' = FALSE
    /\ UNCHANGED <<cfg, remote, remote_other, last_has_players, exit_code,
                   sigs, cyc, hist>>

InitialUpdate ==
    /\ pc = "seeded"
    /\ BeginCycle
    /\ UNCHANGED <<cfg, remote, remote_other, last_has_players, exit_code,
                   sel, sigs, get_ok, get_calls>>

\* variant: a failed probe clears the last known state
ProbeFailsResets ==
    /\ pc = "probing"
    /\ probe_state' = "failed"
    /\ last_has_players' = FALSE
    /\ EndCycle("err")
    /\ UNCHANGED <<cfg, remote, remote_other, exit_code, sigs,
                   players_online, players_max, has_players, patch_body,
                   patch_state, last_at_start, prev_patched, retry,
                   cyc_probes, cyc_patches, hist>>

\* get_server_player_info returns Err
ProbeFails ==
    /\ pc = "probing"
    /\ probe_state' = "failed"
    /\ EndCycle("err")
    /\ UNCHANGED <<cfg, remote, remote_other, last_has_players, exit_code,
                   sigs, players_online, players_max, has_players,
                   patch_body, patch_state, last_at_start, prev_patched,
                   retry, cyc_probes, cyc_patches, hist>>

\* get_server_player_info returns a sample; the threshold is evaluated and
\* the cycle either returns or sends the patch
ProbeReturns ==
    /\ pc = "probing"
    /\ probe_state' = "ok"
    /\ \E sample \in Samples :
      LET online == sample[1]
          max == sample[2]
      IN
        /\ players_online' = online
        /\ players_max' = max
        /\ IF min_players_pct > 0 /\ FromDecimalPanics(min_players_pct)
           THEN /\ pc' = "panicked"
                /\ exit_code' = 101
                /\ UNCHANGED <<has_players, patch_body, result,
                               patch_state, retry, in_flight,
                               cyc_patches, sel>>
           ELSE LET hp == HasPlayers(online,
                            PlayersNeeded(min_players, min_players_pct, max))
                IN /\ has_players' = hp
                   /\ exit_code' = exit_code
                   /\ IF StateUnchanged(hp, last_has_players)
                      THEN /\ EndCycle("ok")
                           /\ retry' = IF retry = (IF hp THEN "t" ELSE "f")
                                       THEN retry ELSE "none"
                           /\ UNCHANGED <<patch_body, patch_state,
                                          cyc_patches>>
                      ELSE /\ pc' = "patching"
                           /\ patch_body' = PatchValue(hp)
                           /\ patch_state' = "issued"
                           /\ cyc_patches' = cyc_patches + 1
                           /\ UNCHANGED <<result, retry, in_flight, sel>>
    /\ UNCHANGED <<cfg, remote, remote_other, last_has_players, sigs,
                   last_at_start, prev_patched, cyc_probes, hist>>

\* api.patch returns Ok
PatchReturns ==
    /\ pc = "patching"
    /\ remote' = IntVal(patch_body)
    /\ remote_other' = MergePatch(remote_other)
    /\ last_has_players' = has_players
    /\ patch_state' = "ok"
    /\ retry' = "none"
    /\ EndCycle("ok")
    /\ UNCHANGED <<cfg, exit_code, sigs, players_online, players_max,
                   has_players, patch_body, probe_state, last_at_start,
                   prev_patched, cyc_probes, cyc_patches, hist>>

\* variant: the new condition is recorded although the patch failed
PatchFailsCommits ==
    /\ pc = "patching"
    /\ patch_state' = "failed"
    /\ last_has_players' = has_players
    /\ retry' = IF has_players THEN "t" ELSE "f"
    /\ EndCycle("err")
    /\ UNCHANGED <<cfg, remote, remote_other, exit_code, sigs,
                   players_online, players_max, has_players, patch_body,
                   probe_state, last_at_start, prev_patched, cyc_probes,
                   cyc_patches, hist>>

\* variant: a failed patch is sent again within the cycle
PatchFailsRetries ==
    /\ pc = "patching"
    /\ cyc_patches < 2
    /\ cyc_patches' = cyc_patches + 1
    /\ UNCHANGED <<cfg, remote, remote_other, pc, last_has_players,
                   exit_code, sel, sigs, players_online, players_max,
                   has_players, patch_body, result, probe_state,
                   patch_state, last_at_start, prev_patched, retry,
                   in_flight, cyc_probes, hist>>

\* api.patch returns Err
PatchFails ==
    /\ pc = "patching"
    /\ patch_state' = "failed"
    /\ retry' = IF has_players THEN "t" ELSE "f"
    /\ EndCycle("err")
    /\ UNCHANGED <<cfg, remote, remote_other, last_has_players, exit_code,
                   sigs, players_online, players_max, has_players,
                   patch_body, probe_state, last_at_start, prev_patched,
                   cyc_probes, cyc_patches, hist>>

\* ---- the loop of run ----
TimerElapses ==
    /\ pc = "select"
    /\ ~timer_elapsed
    /\ timer_elapsed' = TRUE
    /\ UNCHANGED <<cfg, remote, remote_other, pc, last_has_players,
                   exit_code, notified, sigs, cyc, hist>>

\* variant: the update is spawned and the loop waits again at once
SelectTimerSpawns ==
    /\ pc = "select"
    /\ timer_elapsed
    /\ in_flight < 2
    /\ in_flight' = in_flight + 1
    /\ notified' = FALSE
    /\ timer_elapsed' = FALSE
    /\ UNCHANGED <<cfg, remote, remote_other, pc, last_has_players,
                   exit_code, sigs, players_online, players_max,
                   has_players, patch_body, result, probe_state,
                   patch_state, last_at_start, prev_patched, retry,
                   cyc_probes, cyc_patches, hist>>

\* select! takes the sleep branch: do_update().await
SelectTimer ==
    /\ pc = "select"
    /\ timer_elapsed
    /\ BeginCycle
    /\ notified' = FALSE
    /\ timer_elapsed' = FALSE
    /\ UNCHANGED <<cfg, remote, remote_other, last_has_players, exit_code,
                   sigs, get_ok, get_calls>>

\* variant: the allowance is released on the way out
SelectShutdownReleases ==
    /\ pc = "select"
    /\ notified
    /\ pc' = "exited"
    /\ exit_code' = 0
    /\ remote' = IntVal(1)
    /\ last_has_players' = FALSE
    /\ UNCHANGED <<cfg, remote_other, sel, sigs, cyc, hist>>

\* select! takes the notified branch: break, run returns Ok(())
SelectShutdown ==
    /\ pc = "select"
    /\ notified
    /\ pc' = "exited"
    /\ exit_code' = 0
    /\ UNCHANGED <<cfg, remote, remote_other, last_has_players, sel, sigs,
                   cyc, hist>>

\* ---- signal task: handle_signals ----
InstallSignals ==
    /\ Alive
    /\ ~sig_installed
    /\ sig_installed' = TRUE
    /\ UNCHANGED <<cfg, remote, remote_other, pc, last_has_players,
                   exit_code, sel, sig_pending, cyc, hist>>

\* SIGINT or SIGTERM reaches the process; before Signals::new has run the
\* default disposition ends the process.
SignalArrives ==
    /\ Alive
    /\ IF sig_installed
       THEN /\ sig_pending' = TRUE
            /\ UNCHANGED <<pc, exit_code>>
       ELSE /\ pc' = "killed"
            /\ exit_code' = 143
            /\ UNCHANGED sig_pending
    /\ UNCHANGED <<cfg, remote, remote_other, last_has_players, sel,
                   sig_installed, cyc, hist>>

\* notify_waiters wakes only a Notified future that exists at the call
HandleSignal ==
    /\ Alive
    /\ sig_pending
    /\ sig_pending' = FALSE
    /\ notified' = IF pc = "select" THEN TRUE ELSE notified
    /\ after_signal' = IF after_signal < 0 THEN 0 ELSE after_signal
    /\ UNCHANGED <<cfg, remote, remote_other, pc, last_has_players,
                   exit_code, timer_elapsed, sig_installed, cyc, get_ok,
                   get_calls, cycle_no>>

MainStep ==
    \/ ReadConfig \/ ReadConfigFails \/ ClientReady \/ ClientFails
    \/ GetPdb \/ InitialUpdate \/ ProbeFails \/ ProbeReturns
    \/ PatchReturns \/ PatchFails \/ SelectTimer \/ SelectShutdown

Next ==
    \/ ReadConfig \/ ReadConfigFails \/ ClientReady \/ ClientFails
    \/ GetPdb \/ InitialUpdate \/ ProbeFails \/ ProbeReturns
    \/ PatchReturns \/ PatchFails
    \/ TimerElapses \/ SelectTimer \/ SelectShutdown
    \/ InstallSignals \/ SignalArrives \/ HandleSignal

Spec == Init /\ [][Next]_vars

\* The tokio runtime polls every spawned task that can make progress and
\* fires every armed timer; the outcome of a probe, a get or a patch call
\* and the arrival of a signal are up to the environment.
FairSpec ==
    /\ Spec
    /\ WF_vars(MainStep)
    /\ WF_vars(TimerElapses)
    /\ WF_vars(InstallSignals)
    /\ WF_vars(HandleSignal)

\* ---- properties ----

AsString(b) == IF b THEN "t" ELSE "f"

\* C1: whenever a reconciliation has returned Ok, last_has_players is true
\* exactly when the remote allowance is the integer 0 and false exactly when
\* it is the integer 1.
C1_LastKnownEqualsRemote ==
    result = "ok" =>
        /\ last_has_players <=> remote = IntVal(0)
        /\ ~last_has_players <=> remote = IntVal(1)

\* C2: if from some point on no probe and no patch call fails and every
\* sample is the same (and the process keeps running), then eventually the
\* remote allowance stays 0 when the condition computed from that sample is
\* true and stays 1 when it is false.
SteadyStep ==
    /\ ~ProbeFails
    /\ ~PatchFails
    /\ players_online' = players_online
    /\ players_max' = players_max
C2_EventuallyReflectsOccupancy ==
    (<>[][SteadyStep]_vars /\ []Alive)
        => <>[](remote = IntVal(PatchValue(has_players)))

\* C3: in a cycle whose probe succeeded and whose has_players equals the
\* last known state held when the cycle began, no patch call is issued and
\* the last known state is unchanged; a cycle that computes the condition
\* for which the cycle before it patched successfully issues no patch.
C3_Idempotent ==
    /\ (Evaluated /\ has_players = last_at_start)
          => (patch_state = "none" /\ last_has_players = last_at_start)
    /\ (Evaluated /\ prev_patched = AsString(has_players))
          => patch_state = "none"
C3_Witness ==
    /\ Evaluated
    /\ result = "ok"
    /\ has_players
    /\ prev_patched = "t"
    /\ patch_state = "none"

\* C4: a patch is attempted only when has_players differs from the last
\* known state; when the patch call fails the last known state is the one
\* the cycle began with and the cycle returns Err; when it succeeds the last
\* known state is the has_players of that cycle and the cycle returns Ok.
C4_TransitionCommit ==
    /\ patch_state # "none" => (Evaluated /\ has_players # last_at_start)
    /\ patch_state = "failed"
          => (last_has_players = last_at_start /\ result = "err")
    /\ patch_state = "ok"
          => (last_has_players = has_players /\ result = "ok")
C4_Witness ==
    /\ patch_state = "failed"
    /\ last_at_start
    /\ prev_patched = "t"

\* C5: the step in which a probe fails ends the cycle with Err and changes
\* neither the remote allowance nor the last known state; it evaluates no
\* threshold (has_players keeps its value) and issues no patch.
C5_ProbeFailureStep ==
    (pc = "probing" /\ probe_state' = "failed") =>
        /\ pc' = "select"
        /\ result' = "err"
        /\ UNCHANGED <<remote, last_has_players, has_players, patch_body,
                       patch_state, players_online, players_max>>
        /\ patch_state = "none"
C5_ProbeFailureNoEffect == [][C5_ProbeFailureStep]_vars
C5_Witness ==
    /\ probe_state = "failed"
    /\ result = "err"
    /\ last_has_players
    /\ remote = IntVal(0)

\* C6: once notify_waiters has been called, at most one reconciliation is
\* begun afterwards (the one in flight may complete, no new one starts).
C6_NoNewCycleAfterSignal == after_signal <= 1

\* C7: when the shutdown notification has woken the waiting loop, the next
\* step of the main task leaves the loop with exit code 0 and starts no
\* reconciliation.
C7_IdleShutdownStep ==
    (pc = "select" /\ notified /\ pc' # "select")
        => (pc' = "exited" /\ exit_code' = 0)
C7_IdleShutdownExits == [][C7_IdleShutdownStep]_vars

\* C8: no reconciliation cycle panics, whatever MIN_PLAYERS_PERCENT value
\* was parsed at startup.
C8_NoCyclePanics == pc # "panicked"

\* C9: right after the startup read, last_has_players is true when the read
\* returned an object whose allowance is the integer 0, and false when the
\* read failed or the allowance is 1, another integer, a percentage string
\* or absent.
C9_StartupSeeding ==
    pc = "seeded" =>
        /\ (get_ok /\ remote.kind = "int" /\ remote.val = 0)
              => last_has_players
        /\ (~get_ok \/ remote.kind # "int" \/ remote.val # 0)
              => ~last_has_players
C9_Witness ==
    /\ pc = "seeded"
    /\ get_ok
    /\ last_has_players

\* C10: the has_players computed from a sample is true exactly when online
\* is at least pct * max under a percentage policy (pct > 0), and at least
\* min_players otherwise; equality counts as satisfied.
C10_ThresholdPolicy ==
    Evaluated =>
        IF min_players_pct > 0
        THEN has_players <=>
                 ~(players_online * PctDen < min_players_pct * players_max)
        ELSE has_players <=> ~(players_online < min_players)
C10_Witness ==
    /\ Evaluated
    /\ min_players_pct > 0
    /\ min_players_pct < PctDen
    /\ players_max > 0
    /\ players_online * PctDen = min_players_pct * players_max
    /\ has_players

\* C11: under a percentage policy (pct > 0) the has_players of a cycle is
\* the one every other MIN_PLAYERS value would give; with pct = 0 (set to 0
\* or unset) the threshold is MIN_PLAYERS, and 1 when MIN_PLAYERS is unset.
C11_PercentagePrecedence ==
    Evaluated =>
        /\ min_players_pct > 0 =>
              \A mp \in 0..(MaxMinPlayers + 1) :
                  has_players = HasPlayers(players_online,
                      PlayersNeeded(mp, min_players_pct, players_max))
        /\ min_players_pct = 0 =>
              (has_players <=>
                  players_online >= (IF env_min_players = Unset
                                     THEN 1 ELSE env_min_players))
C11_Witness ==
    /\ Evaluated
    /\ min_players_pct > 0
    /\ env_min_players = MaxMinPlayers
    /\ players_online < min_players
    /\ has_players

\* C12: every step leaves the other fields of the remote object alone; the
\* allowance changes only when a patch call returns, and then to 0 when the
\* cycle computed has_players and to 1 when it did not; the body of every
\* patch that is sent carries that value.
C12_PatchStep ==
    /\ remote_other' = remote_other
    /\ remote' # remote =>
          /\ pc = "patching"
          /\ remote' = IntVal(IF has_players THEN 0 ELSE 1)
    /\ (patch_state' = "issued" /\ patch_state # "issued") =>
          patch_body' = (IF has_players' THEN 0 ELSE 1)
C12_OnlyAllowanceWritten == [][C12_PatchStep]_vars
C12_Witness ==
    /\ patch_state = "ok"
    /\ ~has_players
    /\ remote = IntVal(1)
    /\ remote_other = OtherFields

\* C13: a process that ended with exit code 1 ended before the startup read
\* and before any probe or patch call; and a process that left run before
\* the startup read has exit code 1.
C13_FatalStartup ==
    /\ exit_code = 1 =>
          /\ pc = "exited"
          /\ get_calls = 0
          /\ cycle_no = 0
          /\ probe_state = "none"
          /\ patch_state = "none"
    /\ (pc = "exited" /\ get_calls = 0) => exit_code = 1
C13_Witness ==
    /\ pc = "exited"
    /\ exit_code = 1
    /\ min_players_pct > 0

\* C14: while a failed patch for a condition is outstanding the last known
\* state is not that condition, and every cycle whose probe succeeds and
\* computes that condition issues the patch again.
C14_RetryNextCycle ==
    /\ retry = "t" => ~last_has_players
    /\ retry = "f" => last_has_players
    /\ (Evaluated /\ retry = AsString(has_players))
          => patch_state \in {"issued", "failed"}
C14_Witness ==
    /\ retry = "t"
    /\ has_players
    /\ patch_state = "issued"
    /\ cycle_no = 2

\* C15: at most one reconciliation is in flight; none is in flight while
\* the loop waits, and a timer is armed or elapsed only while the loop
\* waits.
C15_Serial ==
    /\ in_flight <= 1
    /\ pc \in {"probing", "patching"} => in_flight = 1
    /\ pc = "select" => in_flight = 0
    /\ (timer_elapsed \/ notified) =>
          (pc \in {"select", "exited", "killed"} /\ in_flight = 0)
C15_Witness ==
    /\ pc = "patching"
    /\ in_flight = 1
    /\ cycle_no = 2
    /\ after_signal = 0 - 1

\* C16: seeding is followed by the initial reconciliation and by nothing
\* else; a reconciliation begins either there, as the first one, or when the
\* loop takes an elapsed timer, as a later one; a timer elapses only in the
\* loop, after the first reconciliation, and taking it begins exactly one
\* reconciliation.
C16_OrderStep ==
    /\ (pc = "seeded" /\ pc' # "seeded") => pc' \in {"probing", "killed"}
    /\ (pc' = "probing" /\ pc # "probing") =>
          \/ pc = "seeded" /\ cycle_no = 0 /\ cycle_no' = 1
          \/ /\ pc = "select"
             /\ timer_elapsed
             /\ ~timer_elapsed'
             /\ cycle_no >= 1
             /\ cycle_no' = 2
    /\ (timer_elapsed /\ ~timer_elapsed') =>
          (pc = "select" /\ pc' = "probing" /\ in_flight' = in_flight + 1)
    /\ (~timer_elapsed /\ timer_elapsed') => (pc = "select" /\ cycle_no >= 1)
    /\ (pc' = "select" /\ pc # "select") => pc \in {"probing", "patching"}
C16_CycleOrdering == [][C16_OrderStep]_vars
C16_Witness ==
    /\ pc = "probing"
    /\ cycle_no = 2
    /\ prev_patched = "f"

\* C17, as stated: in the first cycle, with a percentage of one half and the
\* sample online = 5, max = 10, has_players is true and a patch setting the
\* allowance to 0 is issued.
C17_Premise ==
    /\ Evaluated
    /\ cycle_no = 1
    /\ min_players_pct * 2 = PctDen
    /\ players_online = 5
    /\ players_max = 10
C17_ScenarioPatches ==
    C17_Premise =>
        (has_players /\ patch_state # "none" /\ patch_body = 0)

\* C17, amended: in that cycle the required count is 5 and has_players is
\* true; the patch setting the allowance to 0 is issued when the last known
\* state seeded at startup is false, and no patch is issued when it is true.
C17_ScenarioPatchesFromFalse ==
    C17_Premise =>
        /\ PlayersNeeded(min_players, min_players_pct, players_max)
              = 5 * PctDen
        /\ has_players
        /\ ~last_at_start => (patch_state # "none" /\ patch_body = 0)
        /\ last_at_start => patch_state = "none"
C17_Witness ==
    /\ C17_Premise
    /\ ~last_at_start
    /\ patch_state = "ok"
    /\ remote = IntVal(0)

\* C18: under a percentage policy a sample with max = 0 gives has_players
\* for every online count; a patch issued for it carries 0, and after it
\* the allowance is 0.
C18_ZeroMax ==
    (Evaluated /\ min_players_pct > 0 /\ players_max = 0) =>
        /\ has_players
        /\ patch_state # "none" => patch_body = 0
        /\ patch_state = "ok" => remote = IntVal(0)
C18_Witness ==
    /\ Evaluated
    /\ min_players_pct > 0
    /\ players_max = 0
    /\ players_online = 0
    /\ min_players > 0
    /\ patch_state = "ok"

\* C19: after its seeding, last_has_players changes only in the step in
\* which a patch call returns Ok; a step of the signal task changes nothing
\* of the main task but the notification; the arrival of a signal, the
\* elapsing of the timer and the shutdown branch leave last_has_players and
\* the remote object alone and issue no probe, read or patch.
MainLocals ==
    <<cfg, pc, last_has_players, exit_code, timer_elapsed, players_online,
      players_max, has_players, patch_body, result>>
Calls == <<probe_state, patch_state, cyc_probes, cyc_patches, get_calls>>
C19_FrameStep ==
    /\ (last_has_players' # last_has_players /\ pc # "get") =>
          (pc = "patching" /\ patch_state' = "ok")
    /\ (sig_installed' # sig_installed \/ sig_pending' # sig_pending) =>
          UNCHANGED <<MainLocals, remote, remote_other, Calls>>
    /\ \/ pc' = "killed"
       \/ pc' = "exited"
       \/ ~timer_elapsed /\ timer_elapsed'
       => UNCHANGED <<last_has_players, remote, remote_other, Calls>>
C19_SingleWriter == [][C19_FrameStep]_vars
C19_Witness ==
    /\ patch_state = "ok"
    /\ last_has_players
    /\ ~last_at_start
    /\ after_signal >= 0
    /\ pc = "exited"

\* C20: every cycle has issued exactly one probe and at most one patch
\* call, a patch call only after its probe succeeded; the remote object is
\* read once, before the first cycle, and by no later step; whether a cycle
\* sends a patch is decided by has_players and the last known state.
C20_CallsState ==
    /\ probe_state # "none" => cyc_probes = 1
    /\ cyc_patches <= 1
    /\ cyc_patches = 1 <=> patch_state # "none"
    /\ cyc_patches = 1 => probe_state = "ok"
    /\ get_calls <= 1
    /\ cycle_no > 0 => get_calls = 1
C20_CallsStep ==
    /\ get_calls' # get_calls => (pc = "get" /\ cycle_no = 0)
    /\ (pc = "probing" /\ probe_state' = "ok" /\ pc' # "panicked") =>
          (pc' = "patching" <=> has_players' # last_has_players)
C20_OneProbeOnePatchOneRead == []C20_CallsState /\ [][C20_CallsStep]_vars
C20_Witness ==
    /\ result = "ok"
    /\ cyc_probes = 1
    /\ cyc_patches = 1
    /\ get_calls = 1
    /\ cycle_no = 2

====
